---- MODULE Spec2Model ----
(***************************************************************************)
(* Model of backend/fetch_events.py: the field normalizers                 *)
(* (clean_date_format, clean_starttime, clean_endtime), find_startend_time,*)
(* save_json, the collector loop over the registered fetch functions, the  *)
(* normalization of the collected batch, the first-run / merge branches    *)
(* that assign event_index and save the corpus, and the topic-vector stage.*)
(* Spec runs the script again and again from an absent corpus file;        *)
(* SpecVec runs it once over a stored corpus large enough for the vector   *)
(* stage; SpecDate, SpecTime, SpecFind and SpecSave call one function.     *)
(*                                                                         *)
(* Free text is modelled as a sequence of tokens.  A token is a record     *)
(* [k, a, b, c, pad]:                                                      *)
(*   k = "date"    a calendar date written out, a/b/c = day/month/year     *)
(*   k = "clock"   a clock time with meridiem, a/b = hour(1..12)/minute,   *)
(*                 c = 1 for PM and 0 for AM, pad = an hour below 10 is    *)
(*                 written with a leading zero ("03:00 PM", not "3:00 PM") *)
(*   k = "weekday" a weekday name followed by a comma ("Tuesday,")         *)
(*   k = "noise"   a phrase clean_date_format strips ("Date TBD", "EDT")   *)
(*   k = "word"    any other word ("TBA")                                  *)
(*   k = "dash"    the character '-'                                       *)
(*   k = "hhmm"    a clock time without meridiem ("14:00")                 *)
(*   k = "space"   white space at a place where str.strip() can meet it;   *)
(*                 the white space between two other tokens is implied     *)
(* The empty string is the empty sequence.                                 *)
(***************************************************************************)
EXTENDS Integers, Sequences, FiniteSets, TLC

\* ------------------------------------------------------------------ bounds
\* Number of registered fetch functions the model runs (the program has 42).
NumAdapters == 2
\* Most records the fetch functions of one run return together.
MaxBatch == 3
\* Longest date text, in tokens, of the date-normalizer specification.
MaxDateLen == 3
\* Longest starttime text, in tokens, of the time-normalizer specification.
MaxTimeLen == 4
\* Longest text, in tokens, handed to find_startend_time.
MaxFindLen == 3
\* Longest list handed to save_json in the specification of save_json.
MaxSaveLen == 2

\* ------------------------------------------------------------------ tokens
Tok(k, a, b, c, pad) == [k |-> k, a |-> a, b |-> b, c |-> c, pad |-> pad]
DateTok(d, m, y) == Tok("date", d, m, y, FALSE)
ClockTok(h, mi, pm, pad) == Tok("clock", h, mi, pm, pad)
WeekdayTok == Tok("weekday", 0, 0, 0, FALSE)
NoiseTok == Tok("noise", 0, 0, 0, FALSE)
WordTok == Tok("word", 0, 0, 0, FALSE)
DashTok == Tok("dash", 0, 0, 0, FALSE)
SpaceTok == Tok("space", 0, 0, 0, FALSE)
BareTimeTok == Tok("hhmm", 14, 0, 0, FALSE)

Count(s, kind) == Cardinality({i \in 1..Len(s) : s[i].k = kind})

RECURSIVE Without(_, _)
\* s with every token whose kind is in kinds removed (str.replace(x, ''),
\* re.sub(pattern, '', d))
Without(s, kinds) ==
    IF s = <<>> THEN <<>>
    ELSE IF Head(s).k \in kinds THEN Without(Tail(s), kinds)
    ELSE <<Head(s)>> \o Without(Tail(s), kinds)

\* ------------------------------------------------------- dateutil.parser
\* The date the parser fills missing fields from (datetime.now() at midnight).
Today == [d |-> 3, m |-> 11, y |-> 2018]

IsLeap(y) == (y % 4 = 0 /\ y % 100 # 0) \/ y % 400 = 0
DaysIn(m, y) ==
    IF m = 2 THEN (IF IsLeap(y) THEN 29 ELSE 28)
    ELSE IF m \in {4, 6, 9, 11} THEN 30 ELSE 31

ValidDate(t) == t.b \in 1..12 /\ t.a \in 1..DaysIn(t.b, t.c)

\* dateutil.parser.parse(s) raises ValueError: on a string with nothing but
\* white space and '-' (the empty string too), on a token it does not know,
\* on two dates or two times, on a day the month does not have.  White
\* space and '-' are skipped.
ParseRaises(s) ==
    \/ \A i \in 1..Len(s) : s[i].k \in {"dash", "space"}
    \/ \E i \in 1..Len(s) : s[i].k \in {"noise", "word"}
    \/ Count(s, "date") > 1
    \/ Count(s, "clock") > 1
    \/ Count(s, "weekday") > 1
    \/ \E i \in 1..Len(s) : s[i].k = "date" /\ ~ValidDate(s[i])

\* The datetime parse returns when it does not raise: the date of the date
\* token (Today without one), the 24-hour time of the clock token (midnight
\* without one).
Hour24(t) == (t.a % 12) + 12 * t.c
ParseValue(s) ==
    LET ds == {i \in 1..Len(s) : s[i].k = "date"}
        cs == {i \in 1..Len(s) : s[i].k = "clock"}
        dt == IF ds = {} THEN Today
              ELSE LET i == CHOOSE j \in ds : TRUE
                   IN [d |-> s[i].a, m |-> s[i].b, y |-> s[i].c]
        hh == IF cs = {} THEN 0 ELSE Hour24(s[CHOOSE j \in cs : TRUE])
        mi == IF cs = {} THEN 0 ELSE s[CHOOSE j \in cs : TRUE].b
    IN [d |-> dt.d, m |-> dt.m, y |-> dt.y, hh |-> hh, mi |-> mi]

\* ------------------------------------------------------------- strftime
Digits == <<"0", "1", "2", "3", "4", "5", "6", "7", "8", "9">>
Digit(n) == Digits[n + 1]
TwoDigits(n) == <<Digit((n \div 10) % 10), Digit(n % 10)>>
FourDigits(n) == TwoDigits(n \div 100) \o TwoDigits(n % 100)

\* '%m-%d-%Y' in place of '%d-%m-%Y'
StrfDate_MonthFirst(v) ==
    TwoDigits(v.m) \o <<"-">> \o TwoDigits(v.d) \o <<"-">> \o FourDigits(v.y)

\* datetime.strftime('%d-%m-%Y'): the ten characters DD-MM-YYYY
StrfDate(v) == TwoDigits(v.d) \o <<"-">> \o TwoDigits(v.m) \o <<"-">> \o FourDigits(v.y)

\* datetime.strftime("%I:%M %p"): one clock time, the hour in two digits
StrfTime(v) ==
    LET h == IF v.hh % 12 = 0 THEN 12 ELSE v.hh % 12
    IN <<ClockTok(h, v.mi, IF v.hh >= 12 THEN 1 ELSE 0, h < 10)>>

\* the hour after 23 not taken back to 0
PlusOneHour_NoWrap(v) == [v EXCEPT !.hh = v.hh + 1]

\* datetime + timedelta(hours=1); only the time of day is used afterwards
PlusOneHour(v) == [v EXCEPT !.hh = (v.hh + 1) % 24]

\* --------------------------------------------------------------- results
\* A call either returns a value or raises.
Ret(v) == [raised |-> FALSE, val |-> v]
Raise == [raised |-> TRUE, val |-> <<>>]

\* ------------------------------------------------------ clean_date_format
\* PATS: each regular expression isolates a written-out date at the start of
\* the cleaned string.  At token level they have two shapes:
\*   1 "weekday, DATE rest"   (lines 60, 65, 66)
\*   2 "DATE rest" with something after the date (lines 61-64, 67)
PATS == <<1, 2>>
PatMatch(p, s) ==
    IF p = 1 THEN Len(s) >= 2 /\ s[1].k = "weekday" /\ s[2].k = "date"
    ELSE Len(s) >= 2 /\ s[1].k = "date"
\* pat.sub(r"\1", d): the captured date alone
PatSub(p, s) == IF p = 1 THEN <<s[2]>> ELSE <<s[1]>>

\* The cleanup pass of the except branch: the replace() calls, the clock-time
\* re.sub and strip()
CleanupDate(s) == Without(s, {"noise", "dash", "clock"})

\* parse(d).strftime('%d-%m-%Y')
ParseStrf(s) == IF ParseRaises(s) THEN Raise ELSE Ret(StrfDate(ParseValue(s)))

\* The body of "if d is not ''": the first matching pattern wins and its
\* group is parsed; without a match the cleaned string is parsed.  Neither
\* parse is inside a try.
AfterCleanup(s) ==
    LET hits == {i \in 1..Len(PATS) : PatMatch(PATS[i], s)}
    IN IF hits # {}
       THEN LET first == CHOOSE i \in hits : \A j \in hits : i <= j
            IN ParseStrf(PatSub(PATS[first], s))
       ELSE ParseStrf(s)

clean_date_format(d) ==
    IF ~ParseRaises(d) THEN Ret(StrfDate(ParseValue(d)))
    ELSE LET c == CleanupDate(d)
         IN IF c # <<>> THEN AfterCleanup(c) ELSE Ret(<<>>)

\* ------------------------------------------- clean_starttime, clean_endtime
\* str.split('-'): the pieces between the dashes
FirstDash(s) == CHOOSE i \in 1..Len(s) : s[i].k = "dash" /\ \A j \in 1..(i - 1) : s[j].k # "dash"
LastDash(s) == CHOOSE i \in 1..Len(s) : s[i].k = "dash" /\ \A j \in (i + 1)..Len(s) : s[j].k # "dash"
HasDash(s) == \E i \in 1..Len(s) : s[i].k = "dash"
SplitFirst(s) == SubSeq(s, 1, FirstDash(s) - 1)
SplitLast(s) == SubSeq(s, LastDash(s) + 1, Len(s))

\* str.strip(): the white space at both ends removed
Strip(s) ==
    LET ns == {i \in 1..Len(s) : s[i].k # "space"}
    IN IF ns = {} THEN <<>>
       ELSE SubSeq(s, CHOOSE i \in ns : \A j \in ns : i <= j,
                      CHOOSE i \in ns : \A j \in ns : j <= i)

\* strip() left out
clean_starttime_NoStrip(r) ==
    IF HasDash(r.starttime) THEN SplitFirst(r.starttime) ELSE r.starttime

clean_starttime(r) ==
    IF HasDash(r.starttime) THEN Strip(SplitFirst(r.starttime)) ELSE r.starttime

\* '' in the except branch in place of r['endtime']
clean_endtime_NoFallback(r) ==
    IF HasDash(r.starttime) THEN Strip(SplitLast(r.starttime))
    ELSE IF ParseRaises(r.starttime) THEN <<>>
    ELSE StrfTime(PlusOneHour(ParseValue(r.starttime)))

clean_endtime(r) ==
    IF HasDash(r.starttime) THEN Strip(SplitLast(r.starttime))
    ELSE IF ParseRaises(r.starttime) THEN r.endtime
    ELSE StrfTime(PlusOneHour(ParseValue(r.starttime)))

\* ------------------------------------------------------ find_startend_time
\* re.findall of the clock-time-with-meridiem pattern: the matches from left
\* to right, each as it is written
FindAll(s) == SelectSeq(s, LAMBDA t : t.k = "clock")

\* the first two of more than two matches returned
find_startend_time_FirstTwo(s) ==
    LET ts == FindAll(s)
    IN IF Len(ts) = 1 THEN <<<<ts[1]>>, <<>>>>
       ELSE IF Len(ts) >= 2 THEN <<<<ts[1]>>, <<ts[2]>>>>
       ELSE <<<<>>, <<>>>>

find_startend_time(s) ==
    LET ts == FindAll(s)
    IN IF Len(ts) = 1 THEN <<<<ts[1]>>, <<>>>>
       ELSE IF Len(ts) = 2 THEN <<<<ts[1]>>, <<ts[2]>>>>
       ELSE <<<<>>, <<>>>>

\* ------------------------------------------------------------ DataFrame
\* Columns holding text that is tokenised; the others hold plain strings.
TextCols == {"date", "starttime", "endtime", "date_dt"}
\* '' in a column (fillna('')), and the NaN pandas puts where a row has no
\* value for a column (json.dumps writes it as NaN, json.loads reads it back)
EmptyOf(c) == IF c \in TextCols THEN <<>> ELSE ""
\* A null event_index (the column is numeric) is written -1 here.
NaNOf(c) ==
    IF c = "event_index" THEN -1
    ELSE IF c \in TextCols THEN <<Tok("nan", 0, 0, 0, FALSE)>> ELSE "NaN"

\* A frame is a sequence of rows over the same columns.
Cols(rows) == UNION {DOMAIN rows[i] : i \in 1..Len(rows)}

\* pd.DataFrame(events).fillna('')
DataFrameFillna(evs) ==
    [i \in 1..Len(evs) |->
        [c \in Cols(evs) |-> IF c \in DOMAIN evs[i] THEN evs[i][c] ELSE EmptyOf(c)]]

\* pd.concat((a, b), axis=0, sort=False): the rows of a, then the rows of b,
\* over the union of the columns, NaN where a row has no value
Concat(a, b) ==
    LET cs == Cols(a) \cup Cols(b)
        all == a \o b
    IN [i \in 1..Len(all) |->
           [c \in cs |-> IF c \in DOMAIN all[i] THEN all[i][c] ELSE NaNOf(c)]]

\* subset=['starttime', 'owner', 'location', 'title', 'description', 'url']
KeyCols == {"starttime", "owner", "location", "title", "description", "url"}

\* the row's event_index counted into the key
KeyOf_WithIndex(r) ==
    <<r.starttime, r.owner, r.location, r.title, r.description, r.url,
      IF "event_index" \in DOMAIN r THEN r.event_index ELSE NaNOf("event_index")>>

KeyOf(r) == <<r.starttime, r.owner, r.location, r.title, r.description, r.url>>

\* keep='last' in place of keep='first'
RECURSIVE KeepFirst_Last(_, _)
KeepFirst_Last(rows, seen) ==
    IF rows = <<>> THEN <<>>
    ELSE IF \E i \in 2..Len(rows) : KeyOf(rows[i]) = KeyOf(Head(rows))
         THEN KeepFirst_Last(Tail(rows), seen)
         ELSE <<Head(rows)>> \o KeepFirst_Last(Tail(rows), seen)

RECURSIVE KeepFirst(_, _)
KeepFirst(rows, seen) ==
    IF rows = <<>> THEN <<>>
    ELSE IF KeyOf(Head(rows)) \in seen THEN KeepFirst(Tail(rows), seen)
    ELSE <<Head(rows)>> \o KeepFirst(Tail(rows), seen \cup {KeyOf(Head(rows))})

\* keep=False: every row whose key stands more than once dropped
DropDuplicates_KeepNone(rows) ==
    SelectSeq(rows, LAMBDA r :
        Cardinality({i \in 1..Len(rows) : KeyOf(rows[i]) = KeyOf(r)}) = 1)

\* drop_duplicates left out
DropDuplicates_None(rows) == rows

\* DataFrame.drop_duplicates(subset=..., keep='first')
DropDuplicates(rows) == KeepFirst(rows, {})

\* ----------------------------------------------------- normalization step
\* Lines 2256-2260 raise when the frame has no 'date', 'starttime' or
\* 'endtime' column (an empty batch has no columns at all) and when
\* clean_date_format raises on some row.
NormalizeRaises(evs) ==
    \/ "date" \notin Cols(evs)
    \/ \E i \in 1..Len(evs) : clean_date_format(DataFrameFillna(evs)[i].date).raised
    \/ "starttime" \notin Cols(evs)
    \/ "endtime" \notin Cols(evs)

\* One row after lines 2257-2260: date_dt from date, starttime cleaned, and
\* then, for a row whose endtime is '', clean_endtime of the row as it is by
\* then (its starttime already cleaned).
NormalizeRow(r) ==
    LET cs == DOMAIN r \cup {"date_dt"}
        r1 == [c \in cs |-> IF c = "date_dt" THEN clean_date_format(r.date).val ELSE r[c]]
        r2 == [r1 EXCEPT !.starttime = clean_starttime(r1)]
    IN IF r2.endtime = <<>> THEN [r2 EXCEPT !.endtime = clean_endtime(r2)] ELSE r2

Normalized(evs) ==
    LET df == DataFrameFillna(evs) IN [i \in 1..Len(df) |-> NormalizeRow(df[i])]

\* ------------------------------------------------------ event_index
RECURSIVE MaxOf(_)
MaxOf(S) ==
    LET x == CHOOSE y \in S : TRUE
    IN IF S = {x} THEN x ELSE LET m == MaxOf(S \ {x}) IN IF x > m THEN x ELSE m

IndexSet(rows) == {rows[i].event_index : i \in 1..Len(rows)}

\* the "+ 1" forgotten
EventIdxBegin_NoPlusOne(former) == MaxOf(IndexSet(former))
\* numbering the new rows from 0 again, as the first run does
EventIdxBegin_FromZero(former) == 0

\* one index left out after the largest
EventIdxBegin_Gap(former) == MaxOf(IndexSet(former)) + 2

\* event_idx_begin = events_former_df['event_index'].max() + 1
EventIdxBegin(former) == MaxOf(IndexSet(former)) + 1

WithIndex(r, n) == [c \in DOMAIN r \cup {"event_index"} |-> IF c = "event_index" THEN n ELSE r[c]]

\* the rows numbered before the duplicates are dropped
FirstRunCorpus_IndexFirst(df) ==
    DropDuplicates([i \in 1..Len(df) |-> WithIndex(df[i], i - 1)])

\* First run: drop_duplicates, then event_index = np.arange(len(events_df))
FirstRunCorpus(df) ==
    LET u == DropDuplicates(df) IN [i \in 1..Len(u) |-> WithIndex(u[i], i - 1)]

IsNull(r) == r.event_index = NaNOf("event_index")
NullsBefore(rows, i) == Cardinality({j \in 1..(i - 1) : IsNull(rows[j])})

\* the new frame first in pd.concat, and the whole frame renumbered
MergedCorpus_NewFirst(former, df) ==
    LET u == DropDuplicates(Concat(df, former))
    IN [i \in 1..Len(u) |-> WithIndex(u[i], i - 1)]

\* only the rows the merge added kept
MergedCorpus_Delta(former, df) ==
    LET u == DropDuplicates(Concat(former, df))
        begin == EventIdxBegin(former)
        all == [i \in 1..Len(u) |->
                   IF IsNull(u[i]) THEN WithIndex(u[i], begin + NullsBefore(u, i)) ELSE u[i]]
    IN SubSeq(all, Len(former) + 1, Len(all))

\* Merge: concat, drop_duplicates, then the rows whose event_index is null
\* receive np.arange(event_idx_begin, event_idx_end) in row order.
MergedCorpus(former, df) ==
    LET u == DropDuplicates(Concat(former, df))
        begin == EventIdxBegin(former)
    IN [i \in 1..Len(u) |->
           IF IsNull(u[i]) THEN WithIndex(u[i], begin + NullsBefore(u, i)) ELSE u[i]]

\* The save branch raises KeyError when a key column is missing from the
\* frame handed to drop_duplicates, or the stored corpus has no event_index.
FirstRunRaises(df) == ~(KeyCols \subseteq Cols(df))
MergeRaises(former, df) ==
    \/ ~(KeyCols \subseteq (Cols(former) \cup Cols(df)))
    \/ "event_index" \notin Cols(former)

\* ------------------------------------------------------- fetch functions
\* What the fetch functions can build.  A fetch function builds its records
\* with its own owner and its own set of fields: source 1 writes 'location'
\* and 'speaker'; source 2 writes neither (as fetch_events_CEAS and others
\* do).  The text fields are the cases the normalizers tell apart.
Oct30 == DateTok(30, 10, 2018)
Feb06 == DateTok(6, 2, 2019)

Rec1(title, speaker, date, starttime, endtime) ==
    [title |-> title, description |-> "d", location |-> "L", speaker |-> speaker,
     owner |-> "O1", url |-> "u1", date |-> date, starttime |-> starttime,
     endtime |-> endtime]
Rec2(title, date, starttime, endtime) ==
    [title |-> title, description |-> "d",
     owner |-> "O2", url |-> "u2", date |-> date, starttime |-> starttime,
     endtime |-> endtime]

\* "3:00 PM", no endtime
rA == Rec1("A", "S", <<Oct30>>, <<ClockTok(3, 0, 1, FALSE)>>, <<>>)
\* the same event on another page: another date, speaker and endtime
rA2 == Rec1("A", "T", <<Feb06>>, <<ClockTok(3, 0, 1, FALSE)>>, <<ClockTok(5, 0, 1, FALSE)>>)
\* "Tuesday, October 30, 2018 - 11:30am", starttime "10:00 AM - 12:00 PM"
rB == Rec1("B", "S", <<WeekdayTok, Oct30, DashTok, ClockTok(11, 30, 0, FALSE)>>,
                    <<ClockTok(10, 0, 0, FALSE), DashTok, ClockTok(12, 0, 1, FALSE)>>, <<>>)
\* date "TBA"
rC == Rec2("C", <<WordTok>>, <<>>, <<>>)
\* date "Date TBD", starttime "TBA"
rD == Rec2("D", <<NoiseTok>>, <<WordTok>>, <<>>)

Source(f) == IF f % 2 = 1 THEN {rA, rA2, rB} ELSE {rC, rD}

SeqsUpTo(S, n) == UNION {[1..k -> S] : k \in 0..n}
\* What function f can build when the run has collected n records so far
Outputs(f, n) == SeqsUpTo(Source(f), MaxBatch - n)

\* ------------------------------------------------------------------ state
VARIABLES
    pc,            \* where the run is: "collect", "normalized", "saved", and how it
                   \* ended: "done", "vector_failed" (after the save), "aborted";
                   \* "call" / "returned" around a direct call of a normalizer
    f_idx,         \* position in fetch_fns of the next function to call
    events,        \* the list the collector extends
    printed,       \* the functions print(f) has reported
    calls,         \* each call of this run: the function, whether it raised, what it returned
    events_df,     \* the frame after line 2260
    data_file,     \* PATH_DATA: [exists, rows]
    vector_file,   \* PATH_VECTOR: [exists, rows]
    data_at_start, \* PATH_DATA as it was when the run started
    arg,           \* the argument of a direct call of a function
    ret,           \* what that call returned, or that it raised
    disk           \* the text of the file a direct call of save_json writes, line
                   \* by line, as a reader finds it

vars == <<pc, f_idx, events, printed, calls, events_df, data_file, vector_file,
          data_at_start, arg, ret, disk>>

NoFile == [exists |-> FALSE, rows |-> <<>>]
File(rows) == [exists |-> TRUE, rows |-> rows]

Init ==
    /\ pc = "collect"
    /\ f_idx = 1
    /\ events = <<>>
    /\ printed = <<>>
    /\ calls = <<>>
    /\ events_df = <<>>
    /\ data_file = NoFile
    /\ vector_file = NoFile
    /\ data_at_start = NoFile
    /\ arg = <<>>
    /\ ret = Ret(<<>>)
    /\ disk = <<>>

\* the records built before the exception kept
Extended_KeepPartial(evs, built, raised) == evs \o built
\* the new records put in front
Extended_Prepend(evs, built, raised) == IF raised THEN evs ELSE built \o evs

\* events.extend(f()) inside try/except: a function that raises has returned
\* nothing, whatever it had built by then; print(f) names it.
Extended(evs, built, raised) == IF raised THEN evs ELSE evs \o built

\* One turn of the loop "for f in tqdm(fetch_fns)".
Fetch ==
    /\ pc = "collect"
    /\ f_idx <= NumAdapters
    /\ \E built \in Outputs(f_idx, Len(events)), raised \in BOOLEAN :
          /\ events' = Extended(events, built, raised)
          /\ printed' = IF raised THEN Append(printed, f_idx) ELSE printed
          /\ calls' = Append(calls, [f |-> f_idx, raised |-> raised,
                                     out |-> IF raised THEN <<>> ELSE built])
    /\ f_idx' = f_idx + 1
    /\ UNCHANGED <<pc, events_df, data_file, vector_file, data_at_start, arg, ret, disk>>

\* PATH_DATA opened for writing before the batch is normalized
Normalize_OpenFirst ==
    /\ pc = "collect"
    /\ f_idx = NumAdapters + 1
    /\ IF NormalizeRaises(events)
       THEN pc' = "aborted" /\ data_file' = File(<<>>) /\ UNCHANGED events_df
       ELSE pc' = "normalized" /\ events_df' = Normalized(events) /\ UNCHANGED data_file
    /\ UNCHANGED <<f_idx, events, printed, calls, vector_file,
                   data_at_start, arg, ret, disk>>

\* the loop left after its first turn
Normalize_Early ==
    /\ pc = "collect"
    /\ f_idx >= 2
    /\ IF NormalizeRaises(events)
       THEN pc' = "aborted" /\ UNCHANGED events_df
       ELSE pc' = "normalized" /\ events_df' = Normalized(events)
    /\ UNCHANGED <<f_idx, events, printed, calls, data_file, vector_file,
                   data_at_start, arg, ret, disk>>

\* Lines 2256-2260 after the loop; an exception ends the run.
Normalize ==
    /\ pc = "collect"
    /\ f_idx = NumAdapters + 1
    /\ IF NormalizeRaises(events)
       THEN pc' = "aborted" /\ UNCHANGED events_df
       ELSE pc' = "normalized" /\ events_df' = Normalized(events)
    /\ UNCHANGED <<f_idx, events, printed, calls, data_file, vector_file,
                   data_at_start, arg, ret, disk>>

\* Lines 2263-2280: the first-run branch or the merge branch, each ending in
\* save_json(..., PATH_DATA).
SaveData ==
    /\ pc = "normalized"
    /\ IF ~data_file.exists
       THEN IF FirstRunRaises(events_df)
            THEN pc' = "aborted" /\ UNCHANGED data_file
            ELSE pc' = "saved" /\ data_file' = File(FirstRunCorpus(events_df))
       ELSE IF MergeRaises(data_file.rows, events_df)
            THEN pc' = "aborted" /\ UNCHANGED data_file
            ELSE pc' = "saved" /\ data_file' = File(MergedCorpus(data_file.rows, events_df))
    /\ UNCHANGED <<f_idx, events, printed, calls, events_df, vector_file,
                   data_at_start, arg, ret, disk>>

\* n_components of TruncatedSVD
n_components == 30

\* Lines 2283-2300.  The text of an event is ' '.join of its title,
\* description, location and starttime, which raises TypeError on a NaN;
\* TruncatedSVD(n_components=30, algorithm='arpack') raises unless the
\* matrix has more rows and more columns than n_components, and
\* TfidfVectorizer raises when no term is left; beyond that the outcome
\* depends on the words of the corpus, which the model does not hold.  On
\* success one row per corpus row is written.
VectorTextCols == {"title", "description", "location", "starttime"}

\* The fitted tf-idf and LSA models are a function of the whole corpus; the
\* model keeps of them the number of documents they were fitted on, and
\* writes it for every component of a vector they produce.
Fitted(rows) == Len(rows)

\* one row for each of the first n_components events only
VectorRows_FirstK(rows) ==
    [i \in 1..(IF Len(rows) < n_components THEN Len(rows) ELSE n_components) |->
        [event_index |-> rows[i].event_index,
         event_vector |-> [j \in 1..n_components |-> Fitted(rows)]]]

VectorRows(rows) ==
    [i \in 1..Len(rows) |->
        [event_index |-> rows[i].event_index,
         event_vector |-> [j \in 1..n_components |-> Fitted(rows)]]]

CanFit(rows) ==
    IF /\ Len(rows) > n_components
       /\ \A i \in 1..Len(rows) : \A c \in VectorTextCols : rows[i][c] # NaNOf(c)
    THEN BOOLEAN ELSE {FALSE}

\* PATH_VECTOR opened for writing before the model is fitted
Vectorize_OpenFirst ==
    /\ pc = "saved"
    /\ \E fitted \in CanFit(data_file.rows) :
          IF fitted
          THEN pc' = "done" /\ vector_file' = File(VectorRows(data_file.rows))
          ELSE pc' = "vector_failed" /\ vector_file' = File(<<>>)
    /\ UNCHANGED <<f_idx, events, printed, calls, events_df, data_file,
                   data_at_start, arg, ret, disk>>

\* the entries of the vector file kept, and entries added for the other events
Vectorize_Incremental ==
    /\ pc = "saved"
    /\ \E fitted \in CanFit(data_file.rows) :
          IF fitted
          THEN /\ pc' = "done"
               /\ vector_file' =
                     File(vector_file.rows \o
                          SubSeq(VectorRows(data_file.rows), Len(vector_file.rows) + 1,
                                 Len(data_file.rows)))
          ELSE pc' = "vector_failed" /\ UNCHANGED vector_file
    /\ UNCHANGED <<f_idx, events, printed, calls, events_df, data_file,
                   data_at_start, arg, ret, disk>>

Vectorize ==
    /\ pc = "saved"
    /\ \E fitted \in CanFit(data_file.rows) :
          IF fitted
          THEN pc' = "done" /\ vector_file' = File(VectorRows(data_file.rows))
          ELSE pc' = "vector_failed" /\ UNCHANGED vector_file
    /\ UNCHANGED <<f_idx, events, printed, calls, events_df, data_file,
                   data_at_start, arg, ret, disk>>

\* The script is started again: events = [] and the loop from its start.
StartRun ==
    /\ pc \in {"done", "vector_failed", "aborted"}
    /\ pc' = "collect"
    /\ f_idx' = 1
    /\ events' = <<>>
    /\ printed' = <<>>
    /\ calls' = <<>>
    /\ events_df' = <<>>
    /\ data_at_start' = data_file
    /\ UNCHANGED <<data_file, vector_file, arg, ret, disk>>

Next == Fetch \/ Normalize \/ SaveData \/ Vectorize \/ StartRun

Spec == Init /\ [][Next]_vars

\* ------------------------------------------ a run over a corpus of many events
\* A corpus as earlier runs left it: n events of source 1, numbered 0..n-1
StoredRow(i) ==
    WithIndex(Normalized(<<Rec1(ToString(i), "S", <<Oct30>>,
                                <<ClockTok(3, 0, 1, TRUE)>>, <<ClockTok(4, 0, 1, TRUE)>>)>>)[1],
              i - 1)
StoredCorpus(n) == [i \in 1..n |-> StoredRow(i)]
\* too small for the vector stage until two events are added, and large enough
StoredSizes == {n_components - 1, n_components + 1}

\* What the collector loop can end with when no function raises: the calls
\* of functions f, f+1, ... after evs was collected, and the batch
RECURSIVE Collections(_, _)
Collections(f, evs) ==
    IF f > NumAdapters THEN {[calls |-> <<>>, events |-> evs]}
    ELSE UNION {{[calls |-> <<[f |-> f, raised |-> FALSE, out |-> b]>> \o c.calls,
                  events |-> c.events] : c \in Collections(f + 1, evs \o b)}
                : b \in Outputs(f, Len(evs))}

\* The run is at the end of its collector loop; the vector file is absent or
\* as a run that fitted the stored corpus left it.
InitVec ==
    /\ pc = "collect"
    /\ f_idx = NumAdapters + 1
    /\ \E c \in Collections(1, <<>>) : calls = c.calls /\ events = c.events
    /\ printed = <<>>
    /\ events_df = <<>>
    /\ \E n \in StoredSizes :
          /\ data_file = File(StoredCorpus(n))
          /\ vector_file \in {NoFile} \cup {File(VectorRows(StoredCorpus(n))) : b \in CanFit(StoredCorpus(n)) \ {FALSE}}
    /\ data_at_start = data_file
    /\ arg = <<>>
    /\ ret = Ret(<<>>)
    /\ disk = <<>>

NextVec == Normalize \/ SaveData \/ Vectorize

SpecVec == InitVec /\ [][NextVec]_vars

\* One whole run of the script over such a corpus, from its first line; the
\* vector file is as the run that saved the corpus left it when it fitted.
InitRun ==
    /\ pc = "collect"
    /\ f_idx = 1
    /\ events = <<>>
    /\ printed = <<>>
    /\ calls = <<>>
    /\ events_df = <<>>
    /\ \E n \in StoredSizes :
          /\ data_file = File(StoredCorpus(n))
          /\ vector_file = IF TRUE \in CanFit(StoredCorpus(n))
                           THEN File(VectorRows(StoredCorpus(n))) ELSE NoFile
    /\ data_at_start = data_file
    /\ arg = <<>>
    /\ ret = Ret(<<>>)
    /\ disk = <<>>

NextRun == Fetch \/ Normalize \/ SaveData \/ Vectorize

SpecRun == InitRun /\ [][NextRun]_vars

\* The script run again and again over such a corpus, until the corpus has
\* grown past the size the vector stage needs
RestartBelow == n_components + 2
NextRuns ==
    \/ Fetch \/ Normalize \/ SaveData \/ Vectorize
    \/ (Len(data_file.rows) < RestartBelow /\ StartRun)

SpecRuns == InitRun /\ [][NextRuns]_vars

\* ------------------------------------- clean_date_format called directly
DateAlphabet ==
    {Oct30, DateTok(31, 2, 2019), WeekdayTok, ClockTok(11, 30, 0, FALSE),
     NoiseTok, WordTok, DashTok}
DateTexts == SeqsUpTo(DateAlphabet, MaxDateLen)

InitDate ==
    /\ pc = "call"
    /\ arg \in DateTexts
    /\ ret = Ret(<<>>)
    /\ f_idx = 1
    /\ events = <<>>
    /\ printed = <<>>
    /\ calls = <<>>
    /\ events_df = <<>>
    /\ data_file = NoFile
    /\ vector_file = NoFile
    /\ data_at_start = NoFile
    /\ disk = <<>>

CallCleanDate ==
    /\ pc = "call"
    /\ ret' = clean_date_format(arg)
    /\ pc' = "returned"
    /\ UNCHANGED <<f_idx, events, printed, calls, events_df, data_file, vector_file,
                   data_at_start, arg, disk>>

NextDate == CallCleanDate

SpecDate == InitDate /\ [][NextDate]_vars

\* ------------------------- clean_starttime and clean_endtime called directly
\* "3:00 PM", "09:30 AM", "11:00 AM", "11:30 PM", "12:00 AM", "12:30 PM"
TimeClocks ==
    {ClockTok(3, 0, 1, FALSE), ClockTok(9, 30, 0, TRUE), ClockTok(11, 0, 0, FALSE),
     ClockTok(11, 30, 1, FALSE), ClockTok(12, 0, 0, FALSE), ClockTok(12, 30, 1, FALSE)}
TimeAlphabet == TimeClocks \cup {DashTok, SpaceTok, WordTok}
TimeTexts == SeqsUpTo(TimeAlphabet, MaxTimeLen)

\* The row handed to the function: the two fields it reads
InitTime ==
    /\ pc = "call"
    /\ arg \in [starttime : TimeTexts, endtime : {<<>>, <<ClockTok(5, 0, 1, FALSE)>>}]
    /\ ret = Ret(<<>>)
    /\ f_idx = 1
    /\ events = <<>>
    /\ printed = <<>>
    /\ calls = <<>>
    /\ events_df = <<>>
    /\ data_file = NoFile
    /\ vector_file = NoFile
    /\ data_at_start = NoFile
    /\ disk = <<>>

CallCleanStart ==
    /\ pc = "call"
    /\ ret' = Ret(clean_starttime(arg))
    /\ pc' = "returned_start"
    /\ UNCHANGED <<f_idx, events, printed, calls, events_df, data_file, vector_file,
                   data_at_start, arg, disk>>

CallCleanEnd ==
    /\ pc = "call"
    /\ ret' = Ret(clean_endtime(arg))
    /\ pc' = "returned_end"
    /\ UNCHANGED <<f_idx, events, printed, calls, events_df, data_file, vector_file,
                   data_at_start, arg, disk>>

NextTime == CallCleanStart \/ CallCleanEnd

SpecTime == InitTime /\ [][NextTime]_vars

\* --------------------------------------- find_startend_time called directly
\* "2:00 PM", "3:00 PM", "14:00" and a word
FindAlphabet == {ClockTok(2, 0, 1, FALSE), ClockTok(3, 0, 1, FALSE), BareTimeTok, WordTok}
FindTexts == SeqsUpTo(FindAlphabet, MaxFindLen)

InitFind ==
    /\ pc = "call"
    /\ arg \in FindTexts
    /\ ret = Ret(<<>>)
    /\ f_idx = 1
    /\ events = <<>>
    /\ printed = <<>>
    /\ calls = <<>>
    /\ events_df = <<>>
    /\ data_file = NoFile
    /\ vector_file = NoFile
    /\ data_at_start = NoFile
    /\ disk = <<>>

CallFind ==
    /\ pc = "call"
    /\ ret' = Ret(find_startend_time(arg))
    /\ pc' = "returned_find"
    /\ UNCHANGED <<f_idx, events, printed, calls, events_df, data_file, vector_file,
                   data_at_start, arg, disk>>

NextFind == CallFind

SpecFind == InitFind /\ [][NextFind]_vars

\* ------------------------------------------------ save_json called directly
\* The text save_json writes, '[\n  ' + ',\n  '.join(...) + '\n]', line by
\* line: "[", then two spaces and one element per line with a comma after
\* every element but the last (one line of two spaces for an empty list),
\* then "]".
Line(kind, row, comma) == [kind |-> kind, row |-> row, comma |-> comma]
SaveText(ls) ==
    <<Line("open", <<>>, FALSE)>>
    \o (IF ls = <<>> THEN <<Line("blank", <<>>, FALSE)>>
        ELSE [i \in 1..Len(ls) |-> Line("row", ls[i], i < Len(ls))])
    \o <<Line("close", <<>>, FALSE)>>

\* The lists handed to save_json here: rows of a stored corpus
SaveRows == FirstRunCorpus(Normalized(<<rA, rB>>))
SaveLists == SeqsUpTo({SaveRows[i] : i \in 1..Len(SaveRows)}, MaxSaveLen)

\* The file holds a complete text before the call.
InitSave ==
    /\ pc = "call"
    /\ arg \in SaveLists
    /\ \E prev \in SaveLists : data_at_start = File(prev) /\ disk = SaveText(prev)
    /\ ret = Ret(<<>>)
    /\ f_idx = 1
    /\ events = <<>>
    /\ printed = <<>>
    /\ calls = <<>>
    /\ events_df = <<>>
    /\ data_file = NoFile
    /\ vector_file = NoFile

\* open(file_path, 'w'): the file is truncated to nothing
SaveOpen ==
    /\ pc = "call"
    /\ pc' = "open"
    /\ disk' = <<>>
    /\ UNCHANGED <<f_idx, events, printed, calls, events_df, data_file, vector_file,
                   data_at_start, arg, ret>>

\* fp.write(...): the buffer is flushed to the file a piece at a time
SaveFlush ==
    /\ pc = "open"
    /\ \E n \in (Len(disk) + 1)..(Len(SaveText(arg)) - 1) :
          disk' = SubSeq(SaveText(arg), 1, n)
    /\ UNCHANGED <<pc, f_idx, events, printed, calls, events_df, data_file,
                   vector_file, data_at_start, arg, ret>>

\* leaving the with block closes the file: the rest of the text is written
SaveClose ==
    /\ pc = "open"
    /\ pc' = "returned"
    /\ disk' = SaveText(arg)
    /\ UNCHANGED <<f_idx, events, printed, calls, events_df, data_file, vector_file,
                   data_at_start, arg, ret>>

\* the process is killed while the file is open
SaveCrash ==
    /\ pc = "open"
    /\ pc' = "crashed"
    /\ UNCHANGED <<f_idx, events, printed, calls, events_df, data_file, vector_file,
                   data_at_start, arg, ret, disk>>

\* json.loads(line) of one line of the file: a value only when the line is
\* one whole JSON document.  '[' and ']' alone, the white-space line of an
\* empty list, and a record followed by ',' all raise JSONDecodeError.
JsonLoadsLine(line) ==
    IF line.kind = "row" /\ ~line.comma THEN Ret(line.row) ELSE Raise

\* read_json(file_path): [] when there is no file, else json.loads of every
\* line of the file in turn
read_json(there, text) ==
    IF ~there THEN Ret(<<>>)
    ELSE IF \E i \in 1..Len(text) : JsonLoadsLine(text[i]).raised THEN Raise
    ELSE Ret([i \in 1..Len(text) |-> JsonLoadsLine(text[i]).val])

\* read_json is called after save_json returned, on the path just written
\* or on a path where no file is
ReadJson ==
    /\ pc = "returned"
    /\ \E there \in BOOLEAN :
          /\ pc' = IF there THEN "read" ELSE "read_absent"
          /\ ret' = read_json(there, IF there THEN disk ELSE <<>>)
    /\ UNCHANGED <<f_idx, events, printed, calls, events_df, data_file, vector_file,
                   data_at_start, arg, disk>>

NextSave == SaveOpen \/ SaveFlush \/ SaveClose \/ SaveCrash \/ ReadJson

SpecSave == InitSave /\ [][NextSave]_vars

\* ================================================================ properties
Rows == data_file.rows
Old == data_at_start.rows
Keys(rows) == {KeyOf(rows[i]) : i \in 1..Len(rows)}
AfterSave == pc \in {"saved", "done", "vector_failed"}
CollectionOver == pc \in {"normalized", "aborted"} \/ AfterSave

\* The normalized batch as the save branch hands it to drop_duplicates: over
\* the columns of the concatenated frame in a merge.
Candidates ==
    IF data_at_start.exists
    THEN LET cs == Cols(Old) \cup Cols(events_df)
         IN [i \in 1..Len(events_df) |->
                [c \in cs |-> IF c \in DOMAIN events_df[i] THEN events_df[i][c]
                               ELSE NaNOf(c)]]
    ELSE events_df
NewKey(r) == KeyOf(r) \notin Keys(Old)
FirstPos(k) ==
    LET cand == Candidates
    IN CHOOSE i \in 1..Len(cand) :
           /\ KeyOf(cand[i]) = k
           /\ \A j \in 1..(i - 1) : KeyOf(cand[j]) # k
AgreeOn(r, q, cols) == \A c \in cols : r[c] = q[c]

\* C1: index stability.  In every step, every event the corpus file holds is
\* still in the corpus file afterwards, with the same event_index, wherever
\* the new events of the batch stood.
C1_IndexStability ==
    [][\A i \in 1..Len(data_file.rows) :
          \E j \in 1..Len(data_file'.rows) :
              /\ KeyOf(data_file'.rows[j]) = KeyOf(data_file.rows[i])
              /\ data_file'.rows[j].event_index = data_file.rows[i].event_index]_vars

\* A merge was saved whose batch held a stored event between two new ones.
C1_Witness ==
    /\ AfterSave /\ data_at_start.exists
    /\ \E i, j, k \in 1..Len(Candidates) :
          /\ i < j /\ j < k
          /\ NewKey(Candidates[i]) /\ ~NewKey(Candidates[j]) /\ NewKey(Candidates[k])
    /\ \A i \in 1..Len(Old) : \E j \in 1..Len(Rows) :
          KeyOf(Rows[j]) = KeyOf(Old[i]) /\ Rows[j].event_index = Old[i].event_index

\* C2: index monotonicity.  After a merge, every event that was not in the
\* corpus before the run has an event_index greater than every event_index
\* the corpus held before the run.
C2_IndexMonotonic ==
    (AfterSave /\ data_at_start.exists) =>
        \A i \in 1..Len(Rows) : NewKey(Rows[i]) =>
            \A j \in 1..Len(Old) : Rows[i].event_index > Old[j].event_index

\* A merge that admitted two events into a corpus that held some.
C2_Witness ==
    /\ AfterSave /\ data_at_start.exists /\ Len(Old) >= 1
    /\ Cardinality({i \in 1..Len(Rows) : NewKey(Rows[i])}) >= 2

\* C3: every event_index of the corpus file is a natural number, no two
\* events share one, and an event_index the file held goes to no other event.
C3_IndexUnique ==
    [][/\ \A i \in 1..Len(data_file'.rows) : data_file'.rows[i].event_index \in Nat
       /\ \A i, j \in 1..Len(data_file'.rows) :
             i # j => data_file'.rows[i].event_index # data_file'.rows[j].event_index
       /\ \A i \in 1..Len(data_file.rows), j \in 1..Len(data_file'.rows) :
             data_file'.rows[j].event_index = data_file.rows[i].event_index
                 => KeyOf(data_file'.rows[j]) = KeyOf(data_file.rows[i])]_vars

\* A corpus of four events, the last admitted by a merge.
C3_Witness ==
    /\ AfterSave /\ data_at_start.exists
    /\ Len(Rows) > Len(Old)
    /\ Cardinality(IndexSet(Rows)) >= 4

\* C4: no two events of the corpus file have the same six-field key, and
\* after a save every record of the batch has exactly one event with its key,
\* however many copies of it the batch held.
C4_NoDuplicateKey ==
    /\ \A i, j \in 1..Len(Rows) : i # j => KeyOf(Rows[i]) # KeyOf(Rows[j])
    /\ AfterSave =>
          LET cand == Candidates
          IN \A c \in 1..Len(cand) :
                 Cardinality({i \in 1..Len(Rows) : KeyOf(Rows[i]) = KeyOf(cand[c])}) = 1

\* A saved batch with the same record twice and a copy differing in date.
C4_Witness ==
    /\ AfterSave
    /\ \E i, j \in 1..Len(events) : i < j /\ events[i] = events[j]
    /\ \E i, j \in 1..Len(events) :
          /\ events[i].date # events[j].date
          /\ KeyOf(Candidates[i]) = KeyOf(Candidates[j])

\* C5: after a merge, the event with the key of a stored event is the stored
\* event, field for field (event_index and date_dt included); the event with
\* a key the corpus did not hold is the earliest candidate with that key.
C5_FirstOccurrenceWins ==
    AfterSave =>
        /\ \A i \in 1..Len(Old), j \in 1..Len(Rows) :
              KeyOf(Rows[j]) = KeyOf(Old[i]) => AgreeOn(Rows[j], Old[i], DOMAIN Old[i])
        /\ \A i \in 1..Len(Old) : KeyOf(Old[i]) \in Keys(Rows)
        /\ LET cand == Candidates
           IN \A c \in 1..Len(cand), j \in 1..Len(Rows) :
                  (KeyOf(Rows[j]) = KeyOf(cand[c]) /\ NewKey(cand[c])) =>
                      AgreeOn(Rows[j], cand[FirstPos(KeyOf(cand[c]))],
                              DOMAIN cand[c] \ {"event_index"})

\* A merge whose batch held a record with the key of a stored event and
\* another date_dt, next to a record that was admitted.
C5_Witness ==
    /\ AfterSave /\ data_at_start.exists
    /\ \E c \in 1..Len(Candidates), i \in 1..Len(Old) :
          KeyOf(Candidates[c]) = KeyOf(Old[i]) /\ Candidates[c].date_dt # Old[i].date_dt
    /\ Len(Rows) > Len(Old)

\* C6: a run whose batch is empty completes and leaves the corpus file as it
\* was before the run.
C6_EmptyBatchCompletes ==
    (CollectionOver /\ events = <<>> /\ data_at_start.exists) =>
        (AfterSave /\ data_file = data_at_start)

\* What the calls of this run returned, a call that raised returning nothing
RECURSIVE Returned(_)
Returned(cs) == IF cs = <<>> THEN <<>> ELSE (IF Head(cs).raised THEN <<>> ELSE Head(cs).out) \o Returned(Tail(cs))
RECURSIVE RaisedFns(_)
RaisedFns(cs) == IF cs = <<>> THEN <<>> ELSE (IF Head(cs).raised THEN <<Head(cs).f>> ELSE <<>>) \o RaisedFns(Tail(cs))

C8_BatchOrder ==
    /\ \A i \in 1..Len(calls) : calls[i].f = i
    /\ events = Returned(calls)
    /\ (pc = "normalized" \/ AfterSave) =>
          /\ Len(events_df) = Len(events)
          /\ \A i \in 1..Len(events) :
                AgreeOn(events_df[i], events[i], {"title", "owner", "url", "description", "date"})
    /\ AfterSave =>
          \A a, b \in 1..Len(Rows) :
              (a < b /\ NewKey(Rows[a]) /\ NewKey(Rows[b])) =>
                  FirstPos(KeyOf(Rows[a])) < FirstPos(KeyOf(Rows[b]))

\* A saved run in which both functions returned records, the first of them
\* two different ones, all of them admitted.
C8_Witness ==
    /\ AfterSave
    /\ ~calls[1].raised /\ Len(calls[1].out) = 2 /\ calls[1].out[1] # calls[1].out[2]
    /\ ~calls[2].raised /\ calls[2].out # <<>>
    /\ Len(Rows) = Len(Old) + 3

\* C9: clean_date_format never raises; when the general parse fails and the
\* cleaned string is empty, or the parse after the cleanup fails, it returns
\* the empty string.
C9_NeverRaises ==
    pc = "returned" =>
        /\ ~ret.raised
        /\ (ParseRaises(arg) /\ (CleanupDate(arg) = <<>> \/ AfterCleanup(CleanupDate(arg)).raised))
               => ret.val = <<>>

\* C10: a run whose batch holds a record with a date that cannot be
\* normalized does not abort; it saves the corpus, and the record's event is
\* in it with an empty date_dt.
C10_BadRecordAdmitted ==
    (CollectionOver /\ data_at_start.exists) =>
        \A i \in 1..Len(events) : clean_date_format(events[i].date).raised =>
            /\ AfterSave
            /\ \E j \in 1..Len(Rows) :
                  Rows[j].title = events[i].title /\ Rows[j].date_dt = <<>>


\* C11 (save is atomic): whenever a reader opens the file that save_json
\* writes, during the call, after it, or after a crash in the middle of it,
\* the file holds the complete previous corpus or the complete new one.
C11_AtomicSave == disk \in {SaveText(data_at_start.rows), SaveText(arg)}


\* The keys of the batch that the corpus did not hold before the run, and how
\* many of them appear in the batch before key k does
NewKeys ==
    LET cand == Candidates
        old == Keys(Old)
    IN {KeyOf(cand[c]) : c \in {d \in 1..Len(cand) : KeyOf(cand[d]) \notin old}}
Rank(k) == LET p == FirstPos(k) IN Cardinality({q \in NewKeys : FirstPos(q) < p})
\* A batch the normalizers and the duplicate filter can work on
WellFormed(evs) ==
    /\ evs # <<>>
    /\ KeyCols \cup {"date", "endtime"} \subseteq Cols(evs)
    /\ \A i \in 1..Len(evs) : ~clean_date_format(evs[i].date).raised

C13_VectorFailureFrame ==
    [][/\ vector_file' # vector_file => (pc = "saved" /\ data_file' = data_file)
       /\ pc' = "vector_failed" =>
             (pc = "saved" /\ data_file' = data_file /\ vector_file' = vector_file)]_vars

\* The vector stage failed in a run that had added events to the corpus,
\* with a vector file of an earlier run in place.
C13_Witness ==
    /\ pc = "vector_failed"
    /\ Len(Rows) > Len(Old)
    /\ vector_file.exists /\ Len(vector_file.rows) = Len(Old)

\* C14: after a run whose vector stage succeeded, the vector file has one
\* entry for each event of the corpus file and every event_vector has
\* n_components (30) numbers.
C14_VectorShape ==
    pc = "done" =>
        /\ vector_file.exists
        /\ Len(vector_file.rows) = Len(Rows)
        /\ \A i \in 1..Len(vector_file.rows) :
              Len(vector_file.rows[i].event_vector) = 30

\* The vector stage succeeded on a corpus of more than 30 events, some of
\* them added by this run.
C14_Witness ==
    /\ pc = "done"
    /\ Len(Rows) > Len(Old) /\ Len(Rows) > 30
    /\ Len(vector_file.rows) = Len(Rows)


\* t is s without the white space at its two ends
Trimmed(t, s) ==
    /\ \E a \in 1..(Len(s) + 1), b \in 0..Len(s) :
          /\ t = SubSeq(s, a, b)
          /\ \A i \in (1..(a - 1)) \cup ((b + 1)..Len(s)) : s[i].k = "space"
    /\ t # <<>> => (t[1].k # "space" /\ t[Len(t)].k # "space")
DashAt(s) == {i \in 1..Len(s) : s[i] = DashTok}

\* C15: clean_starttime returns, for a starttime with a '-', the text before
\* its first '-' without the white space around it, and any other starttime
\* as it is; what it returns has no '-'.
C15_CleanStarttime ==
    pc = "returned_start" =>
        /\ ~ret.raised
        /\ DashAt(arg.starttime) # {} =>
              \E n \in DashAt(arg.starttime) :
                  /\ \A m \in DashAt(arg.starttime) : n <= m
                  /\ Trimmed(ret.val, SubSeq(arg.starttime, 1, n - 1))
        /\ DashAt(arg.starttime) = {} => ret.val = arg.starttime
        /\ DashAt(ret.val) = {}

\* clean_starttime returned the time before the first of two dashes, which
\* had white space after it.
C15_Witness ==
    /\ pc = "returned_start"
    /\ Cardinality(DashAt(arg.starttime)) = 2
    /\ arg.starttime[2] = SpaceTok
    /\ ret.val = <<arg.starttime[1]>> /\ ret.val[1].k = "clock"


\* Minutes after midnight of a clock token
MinuteOfDay(t) == 60 * ((t.a % 12) + 12 * t.c) + t.b
\* A text dateutil reads as one clock time: one clock token, white space
OneClock(s) ==
    /\ Cardinality({i \in 1..Len(s) : s[i].k = "clock"}) = 1
    /\ \A i \in 1..Len(s) : s[i].k \in {"clock", "space"}

\* C16: clean_endtime never raises.  For a starttime with a '-' it returns
\* the text after the last '-' without the white space around it; for a
\* starttime that reads as one clock time, the clock time one hour later;
\* for any other starttime, the endtime the record has.
C16_CleanEndtime ==
    pc = "returned_end" =>
        /\ ~ret.raised
        /\ DashAt(arg.starttime) # {} =>
              \E n \in DashAt(arg.starttime) :
                  /\ \A m \in DashAt(arg.starttime) : m <= n
                  /\ Trimmed(ret.val, SubSeq(arg.starttime, n + 1, Len(arg.starttime)))
        /\ (DashAt(arg.starttime) = {} /\ OneClock(arg.starttime)) =>
              /\ Len(ret.val) = 1 /\ ret.val[1].k = "clock"
              /\ \E i \in 1..Len(arg.starttime) :
                    /\ arg.starttime[i].k = "clock"
                    /\ MinuteOfDay(ret.val[1]) = (MinuteOfDay(arg.starttime[i]) + 60) % 1440
        /\ (DashAt(arg.starttime) = {} /\ ~OneClock(arg.starttime)) =>
              ret.val = arg.endtime

\* clean_endtime returned the endtime of a record whose starttime has a word
\* next to a clock time.
C16_Witness ==
    /\ pc = "returned_end"
    /\ DashAt(arg.starttime) = {}
    /\ \E i, j \in 1..Len(arg.starttime) :
          arg.starttime[i].k = "word" /\ arg.starttime[j].k = "clock"
    /\ arg.endtime # <<>> /\ ret.val = arg.endtime

\* C17 as stated: a starttime H:MM AM/PM with a one-digit hour and no endtime
\* gives the time one hour later written as the starttime is written, so
\* "3:00 PM" gives "4:00 PM".
C17_SameForm ==
    (/\ pc = "returned_end" /\ arg.endtime = <<>>
     /\ Len(arg.starttime) = 1 /\ arg.starttime[1].k = "clock"
     /\ arg.starttime[1].a < 10) =>
        LET t == arg.starttime[1]
        IN ret.val = <<ClockTok(t.a + 1, t.b, t.c, t.pad /\ t.a + 1 < 10)>>

\* C17, amended: a starttime that is one clock time gives the time one hour
\* later in the form hh:MM AM/PM, the hour in two digits however the
\* starttime wrote it: "3:00 PM" gives "04:00 PM".  The hour after 12 is 01
\* and the meridiem changes from 11 to 12.
C17_EndtimeDefault ==
    (/\ pc = "returned_end"
     /\ Len(arg.starttime) = 1 /\ arg.starttime[1].k = "clock") =>
        LET t == arg.starttime[1]
            h == IF t.a = 12 THEN 1 ELSE t.a + 1
            pm == IF t.a = 11 THEN 1 - t.c ELSE t.c
        IN ret.val = <<ClockTok(h, t.b, pm, h < 10)>>

\* clean_endtime returned "04:00 PM" for "3:00 PM".
C17_Witness ==
    /\ pc = "returned_end"
    /\ arg = [starttime |-> <<ClockTok(3, 0, 1, FALSE)>>, endtime |-> <<>>]
    /\ ret.val = <<ClockTok(4, 0, 1, TRUE)>>


\* Where the clock times with meridiem stand in s
ClockAt(s) == {i \in 1..Len(s) : s[i].k = "clock"}

\* C18: a call of find_startend_time returns the one match and '' when the
\* text has exactly one clock time with meridiem, the first and the second
\* when it has exactly two, '' and '' when it has none or more than two; the
\* call changes neither its argument nor the files nor the batch.
C18_FindStartEnd ==
    [][pc' = "returned_find" =>
          /\ ~ret'.raised
          /\ Cardinality(ClockAt(arg)) = 1 =>
                \E i \in ClockAt(arg) : ret'.val = <<<<arg[i]>>, <<>>>>
          /\ Cardinality(ClockAt(arg)) = 2 =>
                \E i, j \in ClockAt(arg) : i < j /\ ret'.val = <<<<arg[i]>>, <<arg[j]>>>>
          /\ Cardinality(ClockAt(arg)) \notin {1, 2} => ret'.val = <<<<>>, <<>>>>
          /\ UNCHANGED <<arg, events, events_df, data_file, vector_file>>]_vars

\* find_startend_time returned '' and '' for a text with three clock times.
C18_Witness ==
    /\ pc = "returned_find"
    /\ Cardinality(ClockAt(arg)) = 3
    /\ ret.val = <<<<>>, <<>>>>


\* C19: the corpus is append-only.  In every step, every event the corpus
\* file holds is in the file afterwards with every one of its fields as it
\* was, and the file has at least as many events as before.
C19_AppendOnly ==
    [][/\ \A i \in 1..Len(data_file.rows) :
             \E j \in 1..Len(data_file'.rows) :
                 \A c \in DOMAIN data_file.rows[i] :
                     /\ c \in DOMAIN data_file'.rows[j]
                     /\ data_file'.rows[j][c] = data_file.rows[i][c]
       /\ Len(data_file'.rows) >= Len(data_file.rows)
       /\ data_file.exists => data_file'.exists]_vars

\* A merge into a corpus of two events or more admitted an event, and its
\* batch had a record with the key of a stored event and another endtime.
C19_Witness ==
    /\ AfterSave /\ data_at_start.exists
    /\ Len(Old) >= 2 /\ Len(Rows) > Len(Old)
    /\ \E c \in 1..Len(Candidates), i \in 1..Len(Old) :
          KeyOf(Candidates[c]) = KeyOf(Old[i]) /\ Candidates[c].endtime # Old[i].endtime
    /\ \A i \in 1..Len(Old) : \E j \in 1..Len(Rows) : AgreeOn(Rows[j], Old[i], DOMAIN Old[i])

\* C20: a merge writes the whole corpus: the events the file held, at the
\* places they had and in the order they had, and after them one event for
\* each new key of the batch, in the order the keys first appear in it.
C20_FullCorpus ==
    (AfterSave /\ data_at_start.exists) =>
        /\ Len(Rows) = Len(Old) + Cardinality(NewKeys)
        /\ \A i \in 1..Len(Old) :
              KeyOf(Rows[i]) = KeyOf(Old[i]) /\ Rows[i].event_index = Old[i].event_index
        /\ \A i \in (Len(Old) + 1)..Len(Rows) :
              /\ KeyOf(Rows[i]) \in NewKeys
              /\ Rank(KeyOf(Rows[i])) = i - Len(Old) - 1

\* A merge into a corpus of two events admitted two events, the key of one
\* of them standing twice in the batch.
C20_Witness ==
    /\ AfterSave /\ data_at_start.exists
    /\ Len(Old) = 2 /\ Len(Rows) = 4
    /\ \E i, j \in 1..Len(Candidates) :
          i < j /\ NewKey(Candidates[i]) /\ KeyOf(Candidates[i]) = KeyOf(Candidates[j])


\* The number two digit characters write, -1 when one of them is no digit
DigitChars == {"0", "1", "2", "3", "4", "5", "6", "7", "8", "9"}
NumOf(a, b) ==
    IF a \in DigitChars /\ b \in DigitChars
    THEN 10 * ((CHOOSE n \in 1..10 : Digits[n] = a) - 1) + (CHOOSE n \in 1..10 : Digits[n] = b) - 1
    ELSE -1
\* s is DD-MM-YYYY: ten characters, a day, '-', a month, '-', four digits
IsDateForm(s) ==
    /\ Len(s) = 10
    /\ s[3] = "-" /\ s[6] = "-"
    /\ NumOf(s[1], s[2]) \in 1..31
    /\ NumOf(s[4], s[5]) \in 1..12
    /\ \A i \in 7..10 : s[i] \in DigitChars

\* C21: every event of the corpus file has a date_dt that is '' or has the
\* form DD-MM-YYYY, and so has what clean_date_format returns for the date
\* of every record of a collected batch on which it does not raise.
C21_DateForm ==
    /\ \A i \in 1..Len(Rows) : Rows[i].date_dt = <<>> \/ IsDateForm(Rows[i].date_dt)
    /\ (pc = "collect" /\ f_idx = NumAdapters + 1) =>
          \A i \in 1..Len(events) :
             LET d == clean_date_format(events[i].date)
             IN ~d.raised => (d.val = <<>> \/ IsDateForm(d.val))

\* The corpus file holds an event without date_dt and the event whose date
\* was written "Tuesday, October 30, 2018 - 11:30am", with 30-10-2018.
C21_Witness ==
    /\ \E i \in 1..Len(Rows) : Rows[i].date_dt = <<>>
    /\ \E i \in 1..Len(Rows) :
          Rows[i].date = rB.date /\ Rows[i].date_dt = <<"3", "0", "-", "1", "0", "-", "2", "0", "1", "8">>


\* The fields of a record as the fetch functions write them
RecordFields ==
    {"title", "description", "location", "speaker", "owner", "url",
     "date", "starttime", "endtime"}

\* C22: every event of the corpus file has every record field, and none of
\* them is null: a field no value is known for holds ''.
C22_FieldsNeverNull ==
    \A i \in 1..Len(Rows) : \A c \in RecordFields :
        c \in DOMAIN Rows[i] /\ Rows[i][c] # NaNOf(c)


\* C23: in the normalized frame, a record that came without endtime has the
\* starttime clean_starttime gives for the record as it was collected and
\* the endtime clean_endtime gives for the record as it was collected: a
\* starttime "A - B" leaves starttime A and endtime B.
C23_EndtimeFromRaw ==
    (pc = "normalized" \/ AfterSave) =>
        \A i \in 1..Len(events) :
            events[i].endtime = <<>> =>
                /\ events_df[i].starttime = clean_starttime(events[i])
                /\ events_df[i].endtime = clean_endtime(events[i])


\* The order of the steps of one run
StepOrder ==
    {<<"collect", "normalized">>, <<"collect", "aborted">>,
     <<"normalized", "saved">>, <<"normalized", "aborted">>,
     <<"saved", "done">>, <<"saved", "vector_failed">>}

\* C24: within a run the steps follow each other in one order.  The batch is
\* normalized only when every fetch function has been called; the corpus
\* file is written only by the step from the normalized batch to the saved
\* corpus, which a run takes at most once; the vector file is written only
\* by the step after that, which leaves the corpus file alone; and no step
\* after the save writes the corpus file.
C24_StepOrder ==
    [][/\ pc' # pc => <<pc, pc'>> \in StepOrder
       /\ pc # "collect" => (Len(calls) = NumAdapters /\ calls' = calls)
       /\ data_file' # data_file => (pc = "normalized" /\ pc' = "saved")
       /\ vector_file' # vector_file =>
             (pc = "saved" /\ pc' = "done" /\ data_file' = data_file)
       /\ AfterSave => data_file' = data_file]_vars

\* A run in which a function raised and another returned records wrote the
\* corpus file and then the vector file.
C24_Witness ==
    /\ pc = "done"
    /\ Len(calls) = NumAdapters /\ printed # <<>> /\ events # <<>>
    /\ data_file # data_at_start
    /\ vector_file = File(VectorRows(Rows))


\* C25: after a run whose vector stage succeeded, the vector file has one
\* entry for each event of the corpus file, in the order of the corpus and
\* with its event_index, so the two sets of event_index are the same; and
\* every entry comes from the models fitted in this run on the whole corpus.
C25_VectorsRecomputed ==
    pc = "done" =>
        /\ Len(vector_file.rows) = Len(Rows)
        /\ \A i \in 1..Len(Rows) : vector_file.rows[i].event_index = Rows[i].event_index
        /\ IndexSet(vector_file.rows) = IndexSet(Rows)
        /\ \A i \in 1..Len(vector_file.rows) :
              \A j \in DOMAIN vector_file.rows[i].event_vector :
                  vector_file.rows[i].event_vector[j] = Len(Rows)

\* The vector stage succeeded in a run that added events to a corpus for
\* which a vector file was in place.
C25_Witness ==
    /\ pc = "done"
    /\ Len(Old) > n_components
    /\ Len(Rows) > Len(Old)
    /\ vector_file.exists


\* C26: the corpus file of N events holds the event_index values 0 .. N-1,
\* each once, and they grow along the file.
C26_IndexDense ==
    /\ IndexSet(Rows) = 0..(Len(Rows) - 1)
    /\ \A i, j \in 1..Len(Rows) : i < j => Rows[i].event_index < Rows[j].event_index

\* A merge added a fourth event, numbered 3, to a corpus of three.
C26_Witness ==
    /\ AfterSave /\ data_at_start.exists
    /\ Len(Old) = 3 /\ Len(Rows) = 4
    /\ Rows[4].event_index = 3


\* What the next run writes when it collects the batch `evs` again over the
\* stored corpus `former`: lines 2256-2260, then the merge branch; a run that
\* raises writes nothing.
Rerun(former, evs) ==
    IF NormalizeRaises(evs) THEN former
    ELSE LET df == Normalized(evs)
         IN IF MergeRaises(former, df) THEN former ELSE MergedCorpus(former, df)

\* C27: once a run has saved the corpus, a next run that collects the same
\* raw records leaves the corpus as it is: no event is admitted again and
\* no event_index is assigned, every re-normalized record having the key of
\* a stored event.
C27_RemergeIdempotent ==
    pc = "saved" => Rerun(Rows, events) = Rows

\* The run that saved had collected a record whose starttime is a range,
\* and a record with no location column.
C27_Witness ==
    /\ pc = "saved" /\ data_at_start.exists
    /\ \E i \in 1..Len(events) : HasDash(events[i].starttime)
    /\ \E i \in 1..Len(events) : "location" \notin DOMAIN events[i]
    /\ Len(Rows) > Len(Old)


\* C28 (store round trip): read_json of the file that save_json wrote returns
\* the list that was saved, in order, the empty list included; read_json of
\* a path with no file returns the empty list.
C28_RoundTrip ==
    /\ pc = "read" => ret = Ret(arg)
    /\ pc = "read_absent" => ret = Ret(<<>>)


\* C29 (referential integrity of the vector file): in every state of every
\* run, also after a run whose vector stage failed or was not reached, every
\* event_index in the vector file is the event_index of an event of the
\* corpus file.
C29_VectorsRefer ==
    vector_file.exists => IndexSet(vector_file.rows) \subseteq IndexSet(Rows)

\* A run added events to the corpus and its vector stage failed, so the
\* vector file is the one an earlier run wrote, with fewer entries than the
\* corpus has events.
C29_Witness ==
    /\ pc = "vector_failed"
    /\ vector_file.exists
    /\ Len(Rows) > Len(Old)
    /\ Len(vector_file.rows) < Len(Rows)


\* C30: a run that ends with an exception before save_json is called leaves
\* both files as they were.  No step of a run up to and including the one
\* that raises writes the corpus file or the vector file, and in the state
\* where the run has aborted the corpus file is the one the run started with.
C30_AbortWritesNothing ==
    /\ [](pc = "aborted" => data_file = data_at_start)
    /\ [][pc' \in {"collect", "normalized", "aborted"} /\ pc # "aborted" =>
             data_file' = data_file /\ vector_file' = vector_file]_vars

\* A run over a stored corpus with its vector file collected records and
\* ended in the normalization of one of them.
C30_Witness ==
    /\ pc = "aborted"
    /\ events # <<>> /\ NormalizeRaises(events)
    /\ data_file.exists /\ Len(Rows) > n_components
    /\ vector_file.exists

====
